---- MODULE Spec2Model ----
(***************************************************************************)
(* Template-method dispatch in three programs of the repository:           *)
(*   "emb"  - Go, embedded interface as self-reference slot                 *)
(*   "self" - Go, self-referential interface (capability passed as argument)*)
(*   "java" - the class-based comparison program                            *)
(* Objects live in a heap (a sequence, address = index); a method call is   *)
(* resolved the way the language resolves it (Go selector promotion through *)
(* embedded fields, Go interface dispatch on the dynamic type, Java virtual *)
(* dispatch) and executed statement by statement on a call stack.           *)
(***************************************************************************)
EXTENDS Integers, Sequences, FiniteSets, TLC

VARIABLES prog, mode, heap, stack, out, trace, status, shapes, idx, insts, log

vars == <<prog, mode, heap, stack, out, trace, status, shapes, idx, insts, log>>

\* ---------------------------------------------------------------- bounds
\* completed invocations one test session records
MaxCalls == 2
\* instances one session of the self-referential program builds
MaxInsts == 2
\* steps after which an invocation is declared divergent
MaxSteps == 100

\* ---------------------------------------------------------------- values
Progs == {"emb", "self", "java"}

\* the nil pointer / nil interface value
Nil == 0

Newline == "\n"

Primitives == {"drawBoundary", "fillColor"}

Operations == {"drawBoundary", "fillColor", "draw"}

\* ------------------------------------------------------- program tables
\* statements of a method body
FmtPrint(tok) == [k |-> "print", x |-> tok, m |-> "", arg |-> ""]

Call(on, m, arg) == [k |-> "call", x |-> on, m |-> m, arg |-> arg]

New(ctor) == [k |-> "new", x |-> ctor, m |-> "", arg |-> ""]

Range == [k |-> "range", x |-> "", m |-> "", arg |-> ""]

Next_ == [k |-> "next", x |-> "", m |-> "", arg |-> ""]

\* the type a struct embeds (Go) or a class extends (Java); "Shape" is the
\* embedded interface of ShapeAbstract, "" is no embedding
Embeds(p, T) ==
    IF p = "emb" THEN
        CASE T = "ShapeAbstract" -> "Shape"
          [] T = "ShapeBase" -> "ShapeAbstract"
          [] T = "Circle" -> "ShapeBase"
          [] T = "RedRectangle" -> "ShapeBase"
          [] T = "BlueCircleWithText" -> "Circle"
          [] OTHER -> ""
    ELSE IF p = "self" THEN
        CASE T = "Circle" -> "ShapeBase"
          [] T = "RedRectangle" -> "ShapeBase"
          [] T = "BlueCircleWithText" -> "Circle"
          [] OTHER -> ""
    ELSE
        CASE T = "Circle" -> "Shape"
          [] T = "RedRectangle" -> "Shape"
          [] T = "BlueCircleWithText" -> "Circle"
          [] OTHER -> ""

\* the declarations with the self-referential ShapeBase stripped of its
\* placeholder primitives
DeclaresNoDefaults(p, T) ==
    IF p = "emb" THEN
        CASE T = "ShapeAbstract" -> {"draw"}
          [] T = "ShapeBase" -> {"drawBoundary", "fillColor"}
          [] T = "Circle" -> {"drawBoundary"}
          [] T = "RedRectangle" -> {"drawBoundary", "fillColor"}
          [] T = "BlueCircleWithText" -> {"fillColor", "draw"}
          [] OTHER -> {}
    ELSE IF p = "self" THEN
        CASE T = "ShapeBase" -> {"draw"}
          [] T = "Circle" -> {"drawBoundary"}
          [] T = "RedRectangle" -> {"drawBoundary", "fillColor"}
          [] T = "BlueCircleWithText" -> {"fillColor", "draw"}
          [] OTHER -> {}
    ELSE
        CASE T = "Shape" -> {"draw", "drawBoundary", "fillColor"}
          [] T = "Circle" -> {"drawBoundary"}
          [] T = "RedRectangle" -> {"fillColor", "drawBoundary"}
          [] T = "BlueCircleWithText" -> {"fillColor", "draw"}
          [] OTHER -> {}

\* the methods a type declares itself
Declares(p, T) ==
    IF p = "emb" THEN
        CASE T = "ShapeAbstract" -> {"draw"}
          [] T = "ShapeBase" -> {"drawBoundary", "fillColor"}
          [] T = "Circle" -> {"drawBoundary"}
          [] T = "RedRectangle" -> {"drawBoundary", "fillColor"}
          [] T = "BlueCircleWithText" -> {"fillColor", "draw"}
          [] OTHER -> {}
    ELSE IF p = "self" THEN
        CASE T = "ShapeBase" -> {"drawBoundary", "fillColor", "draw"}
          [] T = "Circle" -> {"drawBoundary"}
          [] T = "RedRectangle" -> {"drawBoundary", "fillColor"}
          [] T = "BlueCircleWithText" -> {"fillColor", "draw"}
          [] OTHER -> {}
    ELSE
        CASE T = "Shape" -> {"draw", "drawBoundary", "fillColor"}
          [] T = "Circle" -> {"drawBoundary"}
          [] T = "RedRectangle" -> {"fillColor", "drawBoundary"}
          [] T = "BlueCircleWithText" -> {"fillColor", "draw"}
          [] OTHER -> {}

\* the composite operation of either base declared with a value receiver
ByValueBaseDraw(p, T, m) == m = "draw" /\ T \in {"ShapeAbstract", "ShapeBase"}

\* methods declared with a value receiver: func (sa ShapeAbstract) draw()
ByValue(p, T, m) == p = "emb" /\ T = "ShapeAbstract" /\ m = "draw"

\* ShapeAbstract.draw with its two primitive calls exchanged
EmbTemplateFillFirst ==
    <<Call("recv", "fillColor", ""), FmtPrint("-"), Call("recv", "drawBoundary", "")>>

\* the body of ShapeAbstract.draw (embedded-interface program)
EmbTemplate == <<Call("recv", "drawBoundary", ""), FmtPrint("-"), Call("recv", "fillColor", "")>>

\* ShapeBase.draw calling the primitives on its receiver, not on its argument
SelfTemplateOnReceiver ==
    <<Call("recv", "drawBoundary", ""), FmtPrint("-"), Call("recv", "fillColor", "")>>

\* the body of ShapeBase.draw(sb Shape) (self-referential program)
SelfTemplate == <<Call("arg", "drawBoundary", ""), FmtPrint("-"), Call("arg", "fillColor", "")>>

\* Shape.draw (Java) with its two primitive calls exchanged
JavaTemplateFillFirst ==
    <<Call("this", "fillColor", ""), FmtPrint("-"), Call("this", "drawBoundary", "")>>

\* the body of Shape.draw (Java)
JavaTemplate == <<Call("this", "drawBoundary", ""), FmtPrint("-"), Call("this", "fillColor", "")>>

\* BlueCircleWithText.draw with the extension printed before the delegation
EmbExtendFirst == <<FmtPrint("-TextAnnotation"), Call("embedded", "draw", "")>>

\* the self-referential BlueCircleWithText.draw not handing its argument on
SelfExtendDropsArg == <<Call("embedded", "draw", ""), FmtPrint("-TextAnnotation")>>

\* BlueCircleWithText.draw calling draw on the instance itself, the value its
\* slot holds, instead of on the named predecessor
EmbExtendViaSelf == <<Call("recv", "draw", ""), FmtPrint("-TextAnnotation")>>

\* BlueCircleWithText.draw: the named predecessor's draw, then the extension
EmbExtend == <<Call("embedded", "draw", ""), FmtPrint("-TextAnnotation")>>

SelfExtend == <<Call("embedded", "draw", "arg"), FmtPrint("-TextAnnotation")>>

\* Java BlueCircleWithText.draw without its super.draw()
JavaExtendNoSuper == <<FmtPrint("-TextAnnotation")>>

JavaExtend == <<Call("super", "draw", ""), FmtPrint("-TextAnnotation")>>

\* the driver with the first two elements of the shapes literal exchanged
EmbMainSwapped ==
    <<New("NewCircle"), New("NewShapeBase"), New("NewRedRectangle"),
      New("NewBlueCircleWithText"),
      Range, Call("elem", "draw", ""), FmtPrint(Newline), Next_>>

\* the driver of each program
EmbMain ==
    <<New("NewShapeBase"), New("NewCircle"), New("NewRedRectangle"),
      New("NewBlueCircleWithText"),
      Range, Call("elem", "draw", ""), FmtPrint(Newline), Next_>>

SelfMain ==
    <<New("ShapeBase"), New("NewCircle"), New("NewRedRectangle"),
      New("NewBlueCircleWithText"),
      Range, Call("elem", "draw", "elem"), FmtPrint(Newline), Next_>>

JavaMain ==
    <<New("Shape"), New("Circle"), New("RedRectangle"), New("BlueCircleWithText"),
      Range, Call("elem", "draw", ""), FmtPrint(Newline), Next_>>

\* position of the loop head in the drivers
LoopHead(body) == CHOOSE i \in 1..Len(body) : body[i].k = "range"

Body(p, T, m) ==
    IF T = "main" THEN
        (IF p = "emb" THEN EmbMain ELSE IF p = "self" THEN SelfMain ELSE JavaMain)
    ELSE IF m = "draw" THEN
        CASE p = "emb" /\ T = "ShapeAbstract" -> EmbTemplate
          [] p = "emb" /\ T = "BlueCircleWithText" -> EmbExtend
          [] p = "self" /\ T = "ShapeBase" -> SelfTemplate
          [] p = "self" /\ T = "BlueCircleWithText" -> SelfExtend
          [] p = "java" /\ T = "Shape" -> JavaTemplate
          [] p = "java" /\ T = "BlueCircleWithText" -> JavaExtend
          [] OTHER -> <<>>
    ELSE IF m = "drawBoundary" THEN
        CASE T \in {"ShapeBase", "Shape"} -> <<FmtPrint("draw nothing")>>
          [] T = "Circle" -> <<FmtPrint("Circle")>>
          [] T = "RedRectangle" -> <<FmtPrint("Rectangle")>>
          [] OTHER -> <<>>
    ELSE IF m = "fillColor" THEN
        CASE T \in {"ShapeBase", "Shape"} -> <<FmtPrint("fill nothing")>>
          [] T = "RedRectangle" -> <<FmtPrint("Red")>>
          [] T = "BlueCircleWithText" -> <<FmtPrint("Blue")>>
          [] OTHER -> <<>>
    ELSE <<>>

\* ------------------------------------------------------------------ heap
Obj(T, inner) == [type |-> T, inner |-> inner, slot |-> Nil]

Alloc(h, T, inner) == [heap |-> Append(h, Obj(T, inner)), ref |-> Len(h) + 1]

\* the address of the ShapeAbstract that holds the promoted field x.Shape
RECURSIVE SlotHolder(_, _)
SlotHolder(h, a) ==
    IF a = Nil THEN Nil
    ELSE IF h[a].type = "ShapeAbstract" THEN a
    ELSE SlotHolder(h, h[a].inner)

\* x.Shape = v
AssignShape(h, x, v) == [h EXCEPT ![SlotHolder(h, x)].slot = v]

\* x.Shape
ReadShape(h, x) == IF SlotHolder(h, x) = Nil THEN Nil ELSE h[SlotHolder(h, x)].slot

\* ---------------------------------------------------------- constructors
\* NewShapeBase() with the assignment sb.Shape = sb left out
EmbNewShapeBaseUnwired(h) ==
    LET sa == Alloc(h, "ShapeAbstract", Nil)
    IN  Alloc(sa.heap, "ShapeBase", sa.ref)

\* NewShapeBase() over one ShapeAbstract kept for all instances instead of
\* a new &ShapeAbstract{} per call
EmbNewShapeBaseShared(h) ==
    LET sa == IF h = <<>> THEN Alloc(h, "ShapeAbstract", Nil) ELSE [heap |-> h, ref |-> 1]
        sb == Alloc(sa.heap, "ShapeBase", sa.ref)
    IN  [heap |-> AssignShape(sb.heap, sb.ref, sb.ref), ref |-> sb.ref]

\* embedded-interface program: NewShapeBase()
EmbNewShapeBase(h) ==
    LET sa == Alloc(h, "ShapeAbstract", Nil)
        sb == Alloc(sa.heap, "ShapeBase", sa.ref)
    IN  [heap |-> AssignShape(sb.heap, sb.ref, sb.ref), ref |-> sb.ref]

\* NewCircle() with the re-pointing assignment c.Shape = c left out
EmbNewCircleUnwired(h) ==
    LET b == EmbNewShapeBase(h)
    IN  Alloc(b.heap, "Circle", b.ref)

\* embedded-interface program: NewCircle()
EmbNewCircle(h) ==
    LET b == EmbNewShapeBase(h)
        c == Alloc(b.heap, "Circle", b.ref)
    IN  [heap |-> AssignShape(c.heap, c.ref, c.ref), ref |-> c.ref]

\* NewRedRectangle() with the assignment rr.Shape = rr left out
EmbNewRedRectangleUnwired(h) ==
    LET b == EmbNewShapeBase(h)
    IN  Alloc(b.heap, "RedRectangle", b.ref)

\* embedded-interface program: NewRedRectangle()
EmbNewRedRectangle(h) ==
    LET b == EmbNewShapeBase(h)
        rr == Alloc(b.heap, "RedRectangle", b.ref)
    IN  [heap |-> AssignShape(rr.heap, rr.ref, rr.ref), ref |-> rr.ref]

\* NewBlueCircleWithText() with the assignment bct.Shape = bct left out
EmbNewBlueCircleWithTextUnwired(h) ==
    LET c == EmbNewCircle(h)
    IN  Alloc(c.heap, "BlueCircleWithText", c.ref)

\* embedded-interface program: NewBlueCircleWithText()
EmbNewBlueCircleWithText(h) ==
    LET c == EmbNewCircle(h)
        bct == Alloc(c.heap, "BlueCircleWithText", c.ref)
    IN  [heap |-> AssignShape(bct.heap, bct.ref, bct.ref), ref |-> bct.ref]

\* self-referential program: &ShapeBase{}
SelfShapeBase(h) == Alloc(h, "ShapeBase", Nil)

\* self-referential program: NewCircle() is &Circle{&ShapeBase{}}
SelfNewCircle(h) ==
    LET b == Alloc(h, "ShapeBase", Nil)
    IN  Alloc(b.heap, "Circle", b.ref)

\* self-referential program: NewRedRectangle() is &RedRectangle{&ShapeBase{}}
SelfNewRedRectangle(h) ==
    LET b == Alloc(h, "ShapeBase", Nil)
    IN  Alloc(b.heap, "RedRectangle", b.ref)

\* self-referential program: NewBlueCircleWithText() is
\* &BlueCircleWithText{&Circle{}}: the Circle's *ShapeBase stays nil
SelfNewBlueCircleWithText(h) ==
    LET c == Alloc(h, "Circle", Nil)
    IN  Alloc(c.heap, "BlueCircleWithText", c.ref)

\* Java: new T()
JavaNew(h, T) == Alloc(h, T, Nil)

\* the constructor expressions of each program and the type each returns
Ctors(p) ==
    IF p = "emb" THEN {"NewShapeBase", "NewCircle", "NewRedRectangle", "NewBlueCircleWithText"}
    ELSE IF p = "self" THEN {"ShapeBase", "NewCircle", "NewRedRectangle", "NewBlueCircleWithText"}
    ELSE {"Shape", "Circle", "RedRectangle", "BlueCircleWithText"}

ReturnType(p, ctor) ==
    CASE ctor \in {"NewShapeBase", "ShapeBase"} -> "ShapeBase"
      [] ctor \in {"NewCircle", "Circle"} -> "Circle"
      [] ctor \in {"NewRedRectangle", "RedRectangle"} -> "RedRectangle"
      [] ctor \in {"NewBlueCircleWithText", "BlueCircleWithText"} -> "BlueCircleWithText"
      [] OTHER -> ctor

Construct(p, h, ctor) ==
    IF p = "emb" THEN
        CASE ctor = "NewShapeBase" -> EmbNewShapeBase(h)
          [] ctor = "NewCircle" -> EmbNewCircle(h)
          [] ctor = "NewRedRectangle" -> EmbNewRedRectangle(h)
          [] ctor = "NewBlueCircleWithText" -> EmbNewBlueCircleWithText(h)
    ELSE IF p = "self" THEN
        CASE ctor = "ShapeBase" -> SelfShapeBase(h)
          [] ctor = "NewCircle" -> SelfNewCircle(h)
          [] ctor = "NewRedRectangle" -> SelfNewRedRectangle(h)
          [] ctor = "NewBlueCircleWithText" -> SelfNewBlueCircleWithText(h)
    ELSE JavaNew(h, ctor)

CtorOf(T) ==
    CASE T = "ShapeBase" -> "NewShapeBase"
      [] T = "Circle" -> "NewCircle"
      [] T = "RedRectangle" -> "NewRedRectangle"
      [] T = "BlueCircleWithText" -> "NewBlueCircleWithText"

\* Struct literals of the embedded-interface program that skip the wiring
\* step: &T{inner} over an inner value built by the constructor of the type
\* `w` (if T embeds w) or, recursively, by another such literal; w = "" is a
\* chain in which no constructor ran, so the slot was never assigned.
RECURSIVE Literal(_, _, _)
Literal(h, T, w) ==
    IF T = "ShapeAbstract" THEN Alloc(h, "ShapeAbstract", Nil)
    ELSE LET E == Embeds("emb", T)
             inner == IF E = w THEN Construct("emb", h, CtorOf(w))
                      ELSE Literal(h, E, w)
         IN  Alloc(inner.heap, T, inner.ref)

\* the types strictly inside T's delegation chain that have a constructor
RECURSIVE InnerCtorTypes(_)
InnerCtorTypes(T) ==
    LET E == Embeds("emb", T)
    IN  IF E \in {"", "Shape", "ShapeAbstract"} THEN {}
        ELSE {E} \cup InnerCtorTypes(E)

EmbTypes == {"ShapeAbstract", "ShapeBase", "Circle", "RedRectangle", "BlueCircleWithText"}

\* -------------------------------------------------------------- dispatch
Frame(T, m, recv, slot, y) ==
    [type |-> T, meth |-> m, recv |-> recv, slot |-> slot, arg |-> y, pc |-> 1]

NoFrame == [type |-> "", meth |-> "", recv |-> Nil, slot |-> Nil, arg |-> Nil, pc |-> 0]

\* a call that reaches its callee
Enter(fr) == [ok |-> TRUE, fr |-> fr]

\* a nil receiver treated as an object without methods: the call returns at
\* once and nothing is reported
NilSkip == [ok |-> TRUE, fr |-> [NoFrame EXCEPT !.pc = 1]]

\* a call through a nil pointer or a nil interface value: the runtime panics
NilDispatch == [ok |-> FALSE, fr |-> NoFrame]

\* the operand of a selector: a pointer, or a struct value (the receiver copy
\* of a value-receiver method) with the slot it was copied with
OnPtr == [byval |-> FALSE, slot |-> Nil]

OnCopy(f) == [byval |-> ByValue("emb", f.type, f.meth), slot |-> f.slot]

RECURSIVE StaticCall(_, _, _, _, _, _, _)
RECURSIVE DynCall(_, _, _, _, _)

\* Go: x.m(y) on an operand x of static type T (address a): the method T
\* declares, else the one promoted from the embedded field, shallowest first;
\* a field is loaded through the pointer, a value receiver copies *a.
StaticCall(p, h, T, a, val, m, y) ==
    IF m \in Declares(p, T) THEN
        IF ByValue(p, T, m) THEN
            IF val.byval THEN Enter(Frame(T, m, Nil, val.slot, y))
            ELSE IF a = Nil THEN NilDispatch
            ELSE Enter(Frame(T, m, Nil, h[a].slot, y))
        ELSE Enter(Frame(T, m, a, Nil, y))
    ELSE IF Embeds(p, T) = "Shape" THEN
        IF val.byval THEN DynCall(p, h, val.slot, m, y)
        ELSE IF a = Nil THEN NilDispatch
        ELSE DynCall(p, h, h[a].slot, m, y)
    ELSE IF Embeds(p, T) = "" \/ a = Nil THEN NilDispatch
    ELSE StaticCall(p, h, Embeds(p, T), h[a].inner, OnPtr, m, y)

\* Go: v.m(y) on an interface value v: nil panics, otherwise the method set
\* of the dynamic type decides
DynCall(p, h, v, m, y) ==
    IF v = Nil THEN NilDispatch
    ELSE StaticCall(p, h, h[v].type, v, OnPtr, m, y)

\* Java: the class, from C upwards, that defines m
RECURSIVE ClassLookup(_, _)
ClassLookup(C, m) ==
    IF m \in Declares("java", C) \/ C = "" THEN C
    ELSE ClassLookup(Embeds("java", C), m)

\* Java: this.m(), dispatched on the object's class
VirtualCall(h, this, m) == Enter(Frame(ClassLookup(h[this].type, m), m, this, Nil, Nil))

\* Java: super.m() inside a method of class C
SuperCall(C, this, m) == Enter(Frame(ClassLookup(Embeds("java", C), m), m, this, Nil, Nil))

\* a call through a variable of the interface (Go) or base-class (Java) type
InterfaceCall(p, h, v, m, y) ==
    IF p = "java" THEN VirtualCall(h, v, m) ELSE DynCall(p, h, v, m, y)

\* a direct call that goes to the embedded value's method even where the
\* outer type shadows it
DirectCallEmbedded(p, h, T, a, m, y) ==
    IF p = "java" THEN VirtualCall(h, a, m)
    ELSE IF Embeds(p, T) \in {"", "Shape"} THEN StaticCall(p, h, T, a, OnPtr, m, y)
    ELSE StaticCall(p, h, Embeds(p, T), h[a].inner, OnPtr, m, y)

\* a direct call made virtual: in the embedded-interface program it goes
\* through the self-reference slot of the object
DirectCallViaSlot(p, h, T, a, m, y) ==
    IF p = "java" THEN VirtualCall(h, a, m)
    ELSE IF p = "emb" THEN DynCall(p, h, ReadShape(h, a), m, y)
    ELSE StaticCall(p, h, T, a, OnPtr, m, y)

\* a call on a variable of the concrete type T
DirectCall(p, h, T, a, m, y) ==
    IF p = "java" THEN VirtualCall(h, a, m) ELSE StaticCall(p, h, T, a, OnPtr, m, y)

\* ------------------------------------------------------------- execution
Ev(e, t, m) == [e |-> e, t |-> t, m |-> m]

Top(c) == c.stack[Len(c.stack)]

Pop(st) == SubSeq(st, 1, Len(st) - 1)

Advance(st, pc) == IF st = <<>> THEN st ELSE [st EXCEPT ![Len(st)].pc = pc]

\* a printer that drops a token it has printed before
EmitOnce(c, tok) ==
    IF \E i \in 1..Len(c.out) : c.out[i] = tok THEN c
    ELSE [c EXCEPT !.out = Append(@, tok), !.trace = Append(@, Ev("print", tok, ""))]

\* fmt.Print(tok) / out.print(tok)
Emit(c, tok) ==
    [c EXCEPT !.out = Append(@, tok), !.trace = Append(@, Ev("print", tok, ""))]

\* the callee of a call statement st executed in frame f
Dispatch(p, c, f, st) ==
    LET elem == c.shapes[c.idx]
        y == IF st.arg = "arg" THEN f.arg ELSE IF st.arg = "elem" THEN elem ELSE Nil
    IN  CASE st.x = "recv" -> StaticCall(p, c.heap, f.type, f.recv, OnCopy(f), st.m, y)
          [] st.x = "embedded" ->
                IF f.recv = Nil THEN NilDispatch
                ELSE StaticCall(p, c.heap, Embeds(p, f.type), c.heap[f.recv].inner, OnPtr, st.m, y)
          [] st.x = "arg" -> DynCall(p, c.heap, f.arg, st.m, y)
          [] st.x = "elem" -> InterfaceCall(p, c.heap, elem, st.m, y)
          [] st.x = "this" -> VirtualCall(c.heap, f.recv, st.m)
          [] st.x = "super" -> SuperCall(f.type, f.recv, st.m)

\* a call that also stores its receiver in the self-reference slot
TransferRewiring(c, r, pc) ==
    IF r.ok THEN
        [c EXCEPT !.stack = Append(Advance(@, pc), r.fr),
                  !.trace = Append(@, Ev("call", r.fr.type, r.fr.meth)),
                  !.heap = IF SlotHolder(@, r.fr.recv) = Nil THEN @
                           ELSE AssignShape(@, r.fr.recv, r.fr.recv)]
    ELSE [c EXCEPT !.status = "panic"]

\* enter the callee, or panic
Transfer(c, r, pc) ==
    IF r.ok THEN
        [c EXCEPT !.stack = Append(Advance(@, pc), r.fr),
                  !.trace = Append(@, Ev("call", r.fr.type, r.fr.meth))]
    ELSE [c EXCEPT !.status = "panic"]

\* one statement of the frame on top of the stack
Step(p, c) ==
    LET f == Top(c)
        body == Body(p, f.type, f.meth)
    IN  IF f.pc > Len(body) THEN
            [c EXCEPT !.stack = Pop(@), !.trace = Append(@, Ev("ret", f.type, f.meth))]
        ELSE
          LET st == body[f.pc]
          IN  CASE st.k = "print" ->
                    [Emit(c, st.x) EXCEPT !.stack = Advance(@, f.pc + 1)]
                [] st.k = "call" -> Transfer(c, Dispatch(p, c, f, st), f.pc + 1)
                [] st.k = "new" ->
                    LET r == Construct(p, c.heap, st.x)
                    IN  [c EXCEPT !.heap = r.heap, !.shapes = Append(@, r.ref),
                                  !.stack = Advance(@, f.pc + 1)]
                [] st.k = "range" ->
                    IF c.idx > Len(c.shapes)
                    THEN [c EXCEPT !.stack = Advance(@, Len(body) + 1)]
                    ELSE [c EXCEPT !.stack = Advance(@, f.pc + 1)]
                [] st.k = "next" ->
                    [c EXCEPT !.idx = @ + 1, !.stack = Advance(@, LoopHead(body))]

\* what the frame on top of the stack does next
NextKind(p, c) ==
    LET f == Top(c)
        body == Body(p, f.type, f.meth)
    IN  IF f.pc > Len(body) THEN "return" ELSE body[f.pc].k

\* run to the end of the invocation (or to a panic)
RECURSIVE Eval(_, _, _)
Eval(p, c, n) ==
    IF c.stack = <<>> \/ c.status # "run" THEN c
    ELSE IF n = 0 THEN [c EXCEPT !.status = "diverge"]
    ELSE Eval(p, Step(p, c), n - 1)

\* ---------------------------------------------------------- state machine
Cfg ==
    [heap |-> heap, stack |-> stack, out |-> out, trace |-> trace,
     status |-> status, shapes |-> shapes, idx |-> idx]

Install(c) ==
    /\ heap' = c.heap
    /\ stack' = c.stack
    /\ out' = c.out
    /\ trace' = c.trace
    /\ status' = c.status
    /\ shapes' = c.shapes
    /\ idx' = c.idx

MainFrame == Frame("main", "main", Nil, Nil, Nil)

\* a run is either the program's driver ("demo") or a test session ("test")
\* that builds one instance and invokes operations on it
Init ==
    /\ prog \in Progs
    /\ mode \in {"demo", "test"}
    /\ heap = <<>>
    /\ stack = IF mode = "demo" THEN <<MainFrame>> ELSE <<>>
    /\ out = <<>>
    /\ trace = <<>>
    /\ status = "run"
    /\ shapes = <<>>
    /\ idx = 1
    /\ insts = <<>>
    /\ log = <<>>

Running == mode = "demo" /\ status = "run" /\ stack # <<>>

\* a driver whose loop draws whichever element it happens to pick, as a
\* range over an unordered collection would
ExecUnordered(kind) ==
    /\ Running
    /\ NextKind(prog, Cfg) = kind
    /\ \E i \in (IF kind = "call" /\ Len(stack) = 1 THEN 1..Len(shapes) ELSE {idx}) :
            Install(Step(prog, [Cfg EXCEPT !.idx = i]))
    /\ UNCHANGED <<prog, mode, insts, log>>

Exec(kind) ==
    /\ Running
    /\ NextKind(prog, Cfg) = kind
    /\ Install(Step(prog, Cfg))
    /\ UNCHANGED <<prog, mode, insts, log>>

\* main: one element of the shapes literal is constructed
ExecNew == Exec("new")

\* main: the loop head
ExecRange == Exec("range")

\* main: the end of the loop body
ExecNext == Exec("next")

\* a call statement: the callee is entered, or the program panics
ExecCall == Exec("call")

\* a print statement
ExecPrint == Exec("print")

\* the end of a method body
ExecReturn == Exec("return")

Testing == mode = "test" /\ stack = <<>>

\* test session: the instance under test is built by a constructor
NewInstance(ctor) ==
    /\ Testing
    /\ insts = <<>>
    /\ ctor \in Ctors(prog)
    /\ LET r == Construct(prog, heap, ctor)
       IN  /\ heap' = r.heap
           /\ insts' = <<[ref |-> r.ref, stype |-> ReturnType(prog, ctor),
                          by |-> "ctor", ctor |-> ctor]>>
    /\ UNCHANGED <<prog, mode, stack, out, trace, status, shapes, idx, log>>

\* test session: the instance under test is a struct literal, its wiring
\* step omitted (embedded-interface program)
NewLiteral(T, w) ==
    /\ Testing
    /\ insts = <<>>
    /\ prog = "emb"
    /\ T \in EmbTypes
    /\ w \in InnerCtorTypes(T) \cup {""}
    /\ LET r == Literal(heap, T, w)
       IN  /\ heap' = r.heap
           /\ insts' = <<[ref |-> r.ref, stype |-> T, by |-> "literal", ctor |-> w]>>
    /\ UNCHANGED <<prog, mode, stack, out, trace, status, shapes, idx, log>>

\* the static type of the expression that reaches the object t from a
\* variable of type T holding a
RECURSIVE TypeAt(_, _, _, _, _)
TypeAt(p, h, T, a, t) ==
    IF a = t THEN T
    ELSE IF a = Nil \/ T = "" THEN ""
    ELSE TypeAt(p, h, Embeds(p, T), h[a].inner, t)

\* the whole invocation t.m(y), through an interface value or on the
\* concrete-typed pointer, run to its end
Invocation(p, c, in, t, m, via, y) ==
    LET r == IF via = "iface" THEN InterfaceCall(p, c.heap, t, m, y)
             ELSE DirectCall(p, c.heap, TypeAt(p, c.heap, in.stype, in.ref, t), t, m, y)
        c0 == [c EXCEPT !.trace = <<>>]
    IN  Eval(p, Transfer(c0, r, 1), MaxSteps)

Record(c, c1, t, m, via, y) ==
    [target |-> t, type |-> c.heap[t].type, meth |-> m, via |-> via, arg |-> y,
     slot |-> ReadShape(c.heap, t),
     out |-> SubSeq(c1.out, Len(c.out) + 1, Len(c1.out)),
     trace |-> c1.trace,
     result |-> IF c1.status = "run" THEN "ok" ELSE c1.status,
     before |-> c.heap, after |-> c1.heap]

Invoke(t, m, via, y) ==
    /\ Testing
    /\ insts # <<>>
    /\ Len(log) < MaxCalls
    /\ t \in 1..Len(heap)
    /\ via \in {"iface", "concrete"}
    /\ LET c1 == Invocation(prog, Cfg, insts[1], t, m, via, y)
       IN  /\ log' = Append(log, Record(Cfg, c1, t, m, via, y))
           /\ heap' = c1.heap
           /\ out' = c1.out
           /\ trace' = c1.trace
    /\ UNCHANGED <<prog, mode, stack, status, shapes, idx, insts>>

\* the capability value handed to draw: only the self-referential program's
\* draw takes one
Args == IF prog = "self" THEN 0..Len(heap) ELSE {Nil}

Draw(t, via, y) == y \in Args /\ Invoke(t, "draw", via, y)

DrawBoundary(t, via) == Invoke(t, "drawBoundary", via, Nil)

FillColor(t, via) == Invoke(t, "fillColor", via, Nil)

Next ==
    \/ ExecNew
    \/ ExecRange
    \/ ExecNext
    \/ ExecCall
    \/ ExecPrint
    \/ ExecReturn
    \/ \E ctor \in Ctors(prog) : NewInstance(ctor)
    \/ \E T \in EmbTypes, w \in EmbTypes \cup {""} : NewLiteral(T, w)
    \/ \E t \in 1..Len(heap), via \in {"iface", "concrete"}, y \in 0..Len(heap) : Draw(t, via, y)
    \/ \E t \in 1..Len(heap), via \in {"iface", "concrete"} : DrawBoundary(t, via)
    \/ \E t \in 1..Len(heap), via \in {"iface", "concrete"} : FillColor(t, via)

Spec == Init /\ [][Next]_vars

\* ---------------------------------------- sessions with several instances
\* self-referential program: a client holding several constructed instances
\* makes one call x.draw(y)
InitArg == Init /\ prog = "self" /\ mode = "test"

\* a further instance is built
NewArgument(ctor) ==
    /\ Testing
    /\ prog = "self"
    /\ insts # <<>> /\ Len(insts) < MaxInsts
    /\ log = <<>>
    /\ ctor \in Ctors(prog)
    /\ LET r == Construct(prog, heap, ctor)
       IN  /\ heap' = r.heap
           /\ insts' = Append(insts, [ref |-> r.ref, stype |-> ReturnType(prog, ctor),
                                      by |-> "ctor", ctor |-> ctor])
    /\ UNCHANGED <<prog, mode, stack, out, trace, status, shapes, idx, log>>

\* the instance the object x is (part of)
Owner(h, x) ==
    insts[CHOOSE k \in 1..Len(insts) : TypeAt(prog, h, insts[k].stype, insts[k].ref, x) # ""]

\* the call x.draw(y), y any object of the session or nil
DrawWith(x, via, y) ==
    /\ Testing
    /\ Len(insts) >= 2
    /\ log = <<>>
    /\ x \in 1..Len(heap)
    /\ y \in 0..Len(heap)
    /\ via \in {"iface", "concrete"}
    /\ LET c1 == Invocation(prog, Cfg, Owner(heap, x), x, "draw", via, y)
       IN  /\ log' = <<Record(Cfg, c1, x, "draw", via, y)>>
           /\ heap' = c1.heap
           /\ out' = c1.out
           /\ trace' = c1.trace
    /\ UNCHANGED <<prog, mode, stack, status, shapes, idx, insts>>

NextArg ==
    \/ \E ctor \in Ctors(prog) : NewInstance(ctor)
    \/ \E ctor \in Ctors(prog) : NewArgument(ctor)
    \/ \E x \in 1..Len(heap), via \in {"iface", "concrete"}, y \in 0..Len(heap) : DrawWith(x, via, y)

SpecArg == InitArg /\ [][NextArg]_vars

\* embedded-interface program: a client builds several instances with the
\* program's constructors, in any order, and invokes the composite operation
\* once, at any point, on any object built so far
InitMany == Init /\ prog = "emb" /\ mode = "test"

\* a further instance is built
NewFurther(ctor) ==
    /\ Testing
    /\ prog = "emb"
    /\ insts # <<>> /\ Len(insts) < MaxInsts
    /\ ctor \in Ctors(prog)
    /\ LET r == Construct(prog, heap, ctor)
       IN  /\ heap' = r.heap
           /\ insts' = Append(insts, [ref |-> r.ref, stype |-> ReturnType(prog, ctor),
                                      by |-> "ctor", ctor |-> ctor])
    /\ UNCHANGED <<prog, mode, stack, out, trace, status, shapes, idx, log>>

\* the call x.draw()
DrawOn(x, via) ==
    /\ Testing
    /\ insts # <<>>
    /\ log = <<>>
    /\ x \in 1..Len(heap)
    /\ via \in {"iface", "concrete"}
    /\ LET c1 == Invocation(prog, Cfg, Owner(heap, x), x, "draw", via, Nil)
       IN  /\ log' = <<Record(Cfg, c1, x, "draw", via, Nil)>>
           /\ heap' = c1.heap
           /\ out' = c1.out
           /\ trace' = c1.trace
    /\ UNCHANGED <<prog, mode, stack, status, shapes, idx, insts>>

NextMany ==
    \/ \E ctor \in Ctors(prog) : NewInstance(ctor)
    \/ \E ctor \in Ctors(prog) : NewFurther(ctor)
    \/ \E x \in 1..Len(heap), via \in {"iface", "concrete"} : DrawOn(x, via)

SpecMany == InitMany /\ [][NextMany]_vars

\* ------------------------------------------------------ the driver alone
\* the program run from main; a sequential program that can take a step
\* takes it
InitDriver == Init /\ mode = "demo"

NextDriver ==
    \/ ExecNew
    \/ ExecRange
    \/ ExecNext
    \/ ExecCall
    \/ ExecPrint
    \/ ExecReturn

SpecDriver == InitDriver /\ [][NextDriver]_vars /\ WF_vars(NextDriver)

\* ------------------------------------------------------------ properties
Recs == {log[i] : i \in 1..Len(log)}

IsPrefix(s, t) == Len(s) <= Len(t) /\ SubSeq(t, 1, Len(s)) = s

Count(s, x) == Cardinality({i \in 1..Len(s) : s[i] = x})

\* the driver has run to its end
Done == mode = "demo" /\ stack = <<>> /\ status = "run"

\* the instance under test came out of one of the program's constructors
ByCtor == insts # <<>> /\ insts[1].by = "ctor"

\* recorded composite operations on the constructed instance itself (in the
\* self-referential program: with the instance passed as the argument)
RootDraws ==
    {r \in Recs : /\ ByCtor
                  /\ r.target = insts[1].ref
                  /\ r.meth = "draw"
                  /\ (prog = "self" => r.arg = r.target)}

\* the token sequences of the expected output
ExpectedTokens(V) ==
    CASE V \in {"ShapeBase", "Shape"} -> <<"draw nothing", "-", "fill nothing">>
      [] V = "Circle" -> <<"Circle", "-", "fill nothing">>
      [] V = "RedRectangle" -> <<"Rectangle", "-", "Red">>
      [] V = "BlueCircleWithText" -> <<"Circle", "-", "Blue", "-TextAnnotation">>

DemoTypes == <<"ShapeBase", "Circle", "RedRectangle", "BlueCircleWithText">>

DemoOutput ==
    ExpectedTokens(DemoTypes[1]) \o <<Newline>> \o ExpectedTokens(DemoTypes[2]) \o <<Newline>>
    \o ExpectedTokens(DemoTypes[3]) \o <<Newline>> \o ExpectedTokens(DemoTypes[4]) \o <<Newline>>

FreshCfg(h) ==
    [heap |-> h, stack |-> <<>>, out |-> <<>>, trace |-> <<>>,
     status |-> "run", shapes |-> <<>>, idx |-> 1]

\* the constructor of program p for the variant V
CtorFor(p, V) ==
    IF p = "java" THEN (IF V = "ShapeBase" THEN "Shape" ELSE V)
    ELSE IF p = "self" /\ V = "ShapeBase" THEN "ShapeBase"
    ELSE CtorOf(V)

Variant(T) == IF T = "Shape" THEN "ShapeBase" ELSE T

\* program p's composite operation on a freshly constructed instance of V,
\* invoked the way p's driver invokes it
DrawOf(p, V) ==
    LET r == Construct(p, <<>>, CtorFor(p, V))
        in == [ref |-> r.ref, stype |-> ReturnType(p, CtorFor(p, V)),
               by |-> "ctor", ctor |-> CtorFor(p, V)]
    IN  Invocation(p, FreshCfg(r.heap), in, r.ref, "draw", "iface",
                   IF p = "self" THEN r.ref ELSE Nil)

\* program p's driver, run from its start
DemoOf(p) == Eval(p, [FreshCfg(<<>>) EXCEPT !.stack = <<MainFrame>>], MaxSteps)

\* C1: embedded-interface program: draw() through the Shape interface on the
\* instance returned by NewShapeBase, NewCircle, NewRedRectangle and
\* NewBlueCircleWithText completes and emits exactly the tokens
\* draw nothing,-,fill nothing / Circle,-,fill nothing / Rectangle,-,Red /
\* Circle,-,Blue,-TextAnnotation.
C1_DrawTokens ==
    (mode = "test" /\ prog = "emb") =>
        \A r \in RootDraws :
            r.via = "iface" => r.result = "ok" /\ r.out = ExpectedTokens(r.type)

C1_Witness ==
    /\ mode = "test" /\ prog = "emb"
    /\ \E r \in RootDraws :
        /\ r.via = "iface"
        /\ r.type = "BlueCircleWithText"
        /\ r.out = <<"Circle", "-", "Blue", "-TextAnnotation">>

\* C2: the Go drivers build the collection in the order base, Circle,
\* RedRectangle, BlueCircleWithText before anything is printed, walk it once
\* in that order with one draw and one line break per element: the output
\* grows along the four expected lines and is exactly those lines at the end.
C2_DriverOutput ==
    (mode = "demo" /\ prog \in {"emb", "self"}) =>
        /\ IsPrefix([i \in 1..Len(shapes) |-> heap[shapes[i]].type], DemoTypes)
        /\ out # <<>> => Len(shapes) = 4
        /\ IsPrefix(out, DemoOutput)
        /\ idx <= Len(shapes) + 1
        /\ Count(out, Newline) \in {idx - 1, idx}
        /\ Count(trace, Ev("ret", "ShapeAbstract", "draw"))
            + Count(trace, Ev("ret", "ShapeBase", "draw")) \in {idx - 1, idx}
        /\ Done => out = DemoOutput /\ idx = 5 /\ status = "run"

C2_Witness == Done /\ prog = "emb" /\ out = DemoOutput /\ Len(shapes) = 4

\* C3: the two Go strategies agree: in the self-referential program s.draw(s)
\* on a constructed instance emits what the embedded-interface program's
\* s.draw() emits for the same variant, and the two drivers print the same.
C3_StrategiesAgree ==
    prog = "self" =>
        /\ \A r \in RootDraws :
            r.via = "iface" =>
                /\ r.out = DrawOf("emb", r.type).out
                /\ r.result = "ok" /\ DrawOf("emb", r.type).status = "run"
        /\ Done => out = DemoOf("emb").out /\ DemoOf("emb").status = "run"

C3_Witness ==
    /\ mode = "test" /\ prog = "self"
    /\ \E r \in RootDraws :
        /\ r.via = "iface" /\ r.type = "BlueCircleWithText"
        /\ r.out = DrawOf("emb", "BlueCircleWithText").out
        /\ Len(r.out) = 4

\* C4: the Go emulation matches native virtual dispatch: the Java program's
\* s.draw() on a new instance of a class emits what the embedded-interface Go
\* program emits for the same variant, and the two drivers print the same
\* four lines.
C4_JavaAgrees ==
    prog = "java" =>
        /\ \A r \in RootDraws :
            /\ r.out = DrawOf("emb", Variant(r.type)).out
            /\ r.result = "ok" /\ DrawOf("emb", Variant(r.type)).status = "run"
        /\ Done => out = DemoOf("emb").out /\ DemoOf("emb").status = "run"

C4_Witness ==
    /\ Done /\ prog = "java"
    /\ out = DemoOf("emb").out
    /\ Count(out, Newline) = 4

\* C5: substitutability (both Go programs): on an instance produced by a
\* constructor, the composite operation invoked through the Shape interface
\* value and invoked on the concrete-typed pointer emit the same tokens and
\* end the same way.
C5_Substitutable ==
    (mode = "test" /\ prog \in {"emb", "self"}) =>
        \A r1 \in RootDraws, r2 \in RootDraws :
            (r1.via = "iface" /\ r2.via = "concrete") =>
                r1.out = r2.out /\ r1.result = r2.result /\ r1.result = "ok"

C5_Witness ==
    /\ mode = "test" /\ prog = "emb"
    /\ \E r1 \in RootDraws, r2 \in RootDraws :
        /\ r1.via = "iface" /\ r2.via = "concrete"
        /\ r1.type = "BlueCircleWithText"
        /\ r1.out = r2.out /\ Len(r1.out) = 4

\* the heap of the test session right after its instance was built
BuiltHeap ==
    IF insts[1].by = "ctor" THEN Construct(prog, <<>>, insts[1].ctor).heap
    ELSE Literal(<<>>, insts[1].stype, insts[1].ctor).heap

\* C6: idempotence: two recorded invocations of the same operation on the
\* same instance (same dispatch, same argument) emit the same tokens and end
\* the same way, whatever was invoked in between; and every recorded
\* invocation emits what the same invocation emits as the first one after
\* construction, so nothing that ran before it shows in its output.
C6_Idempotent ==
    mode = "test" =>
        /\ \A i \in 1..Len(log), j \in 1..Len(log) :
            (/\ log[i].target = log[j].target /\ log[i].meth = log[j].meth
             /\ log[i].via = log[j].via /\ log[i].arg = log[j].arg) =>
                log[i].out = log[j].out /\ log[i].result = log[j].result
        /\ \A r \in Recs :
            LET first == Invocation(prog, FreshCfg(BuiltHeap), insts[1],
                                    r.target, r.meth, r.via, r.arg)
            IN  /\ r.out = first.out
                /\ (r.result = "ok") = (first.status = "run")

C6_Witness ==
    /\ mode = "test" /\ prog = "emb" /\ ByCtor
    /\ Len(log) >= 2
    /\ log[1].meth = "draw" /\ log[2].meth = "draw"
    /\ log[1].target = insts[1].ref /\ log[2].target = insts[1].ref
    /\ log[1].via = log[2].via
    /\ log[1].type = "BlueCircleWithText"
    /\ log[1].out = log[2].out /\ Len(log[2].out) = 4

\* the delegation chain of T, outermost first
RECURSIVE Chain(_, _)
Chain(p, T) ==
    IF T = "" \/ (p # "java" /\ T = "Shape") THEN <<>>
    ELSE <<T>> \o Chain(p, Embeds(p, T))

\* the outermost type of T's chain that defines m
OutermostDefining(p, T, m) ==
    LET ch == Chain(p, T)
        k == CHOOSE i \in 1..Len(ch) :
                /\ m \in Declares(p, ch[i])
                /\ \A j \in 1..(i - 1) : m \notin Declares(p, ch[j])
    IN  ch[k]

\* the composite operation defined on the base of the chain
BaseDraw == IF prog = "emb" THEN "ShapeAbstract" ELSE IF prog = "self" THEN "ShapeBase" ELSE "Shape"

\* C7: override precedence (Go programs): a primitive invoked through the
\* capability value of a constructed instance - directly, or by the composite
\* operation - runs the definition of the outermost type of the instance's
\* chain that defines it; BlueCircleWithText's composite operation emits the
\* fill token Blue once and never fill nothing, the call being made from
\* the composite body defined on the base type.
C7_OverridePrecedence ==
    (mode = "test" /\ prog \in {"emb", "self"} /\ ByCtor) =>
        /\ \A r \in RootDraws : \A k \in 1..Len(r.trace) :
            (r.trace[k].e = "call" /\ r.trace[k].m \in Primitives) =>
                r.trace[k].t = OutermostDefining(prog, r.type, r.trace[k].m)
        /\ \A r \in Recs :
            (r.target = insts[1].ref /\ r.meth \in Primitives /\ r.via = "iface") =>
                /\ r.result = "ok"
                /\ r.trace[1] = Ev("call", OutermostDefining(prog, r.type, r.meth), r.meth)
        /\ \A r \in RootDraws :
            r.type = "BlueCircleWithText" =>
                /\ Count(r.out, "Blue") = 1
                /\ Count(r.out, "fill nothing") = 0
                /\ \E i, j, k \in 1..Len(r.trace) :
                    /\ i < j /\ j < k
                    /\ r.trace[i] = Ev("call", BaseDraw, "draw")
                    /\ r.trace[j] = Ev("call", "BlueCircleWithText", "fillColor")
                    /\ r.trace[k] = Ev("ret", BaseDraw, "draw")

C7_Witness ==
    /\ mode = "test" /\ prog = "emb" /\ ByCtor
    /\ \E r \in RootDraws :
        /\ r.type = "BlueCircleWithText"
        /\ r.via = "iface"
        /\ r.out[3] = "Blue"
        /\ \E k \in 1..Len(r.trace) : r.trace[k] = Ev("call", "BlueCircleWithText", "fillColor")

\* C8: delegation chaining (Go programs): in the composite operation of a
\* constructed BlueCircleWithText the predecessor's composite operation has
\* returned, and Circle, - and the fill token have been printed, before
\* -TextAnnotation is printed; -TextAnnotation is printed once, as the last
\* token.
C8_DelegationFirst ==
    (mode = "test" /\ prog \in {"emb", "self"}) =>
        \A r \in RootDraws :
            r.type = "BlueCircleWithText" =>
                /\ r.result = "ok"
                /\ Len(r.out) = 4
                /\ SubSeq(r.out, 1, 3) = <<"Circle", "-", "Blue">>
                /\ r.out[Len(r.out)] = "-TextAnnotation"
                /\ Count(r.out, "-TextAnnotation") = 1
                /\ \E i, j \in 1..Len(r.trace) :
                    /\ i < j
                    /\ r.trace[i] = Ev("ret", BaseDraw, "draw")
                    /\ r.trace[j] = Ev("print", "-TextAnnotation", "")
                    /\ \A k \in 1..Len(r.trace) :
                        (r.trace[k].e = "print" /\ k # j) => k < i

C8_Witness ==
    /\ mode = "test" /\ prog = "self"
    /\ \E r \in RootDraws :
        /\ r.type = "BlueCircleWithText"
        /\ r.out = <<"Circle", "-", "Blue", "-TextAnnotation">>
        /\ r.trace[Len(r.trace) - 1] = Ev("print", "-TextAnnotation", "")

\* C9: construction without wiring (embedded-interface program): the
\* composite operation on an instance whose self-reference slot is nil
\* panics on the nil interface value; it prints nothing, so neither a
\* base-default token nor a silent completion.
C9_UnwiredDrawPanics ==
    (mode = "test" /\ prog = "emb") =>
        \A r \in Recs :
            (r.meth = "draw" /\ r.slot = Nil) =>
                /\ r.result = "panic"
                /\ r.out = <<>>
                /\ \A k \in 1..Len(r.trace) : r.trace[k].e # "print"

C9_Witness ==
    /\ mode = "test" /\ prog = "emb"
    /\ insts # <<>> /\ insts[1].by = "literal"
    /\ \E r \in Recs :
        /\ r.meth = "draw" /\ r.slot = Nil
        /\ r.type = "BlueCircleWithText"
        /\ r.result = "panic"

\* C10 as stated: a primitive operation invoked on an instance whose
\* self-reference was never set fails fast, as the composite operation does.
C10_UnwiredPrimitivePanics ==
    (mode = "test" /\ prog = "emb") =>
        \A r \in Recs :
            (r.meth \in Primitives /\ r.slot = Nil) => r.result = "panic"

\* C10 amended (embedded-interface program, instances whose embedded pointers
\* are all set): a primitive fails fast only where it is dispatched through
\* the unset slot, that is on the ShapeAbstract holding it; invoked on a
\* ShapeBase, Circle, RedRectangle or BlueCircleWithText it runs that type's
\* (or its chain's) definition and prints its one token whether or not the
\* slot is set; and an operation fails only by such a dispatch through an
\* unset slot, in a panic.
C10_PrimitivesAndSlot ==
    (mode = "test" /\ prog = "emb") =>
        \A r \in Recs :
            /\ (r.meth \in Primitives /\ r.type = "ShapeAbstract" /\ r.slot = Nil) =>
                    r.result = "panic" /\ r.out = <<>>
            /\ (r.meth \in Primitives /\ r.type # "ShapeAbstract") =>
                    /\ r.result = "ok"
                    /\ r.out = <<Body("emb", OutermostDefining("emb", r.type, r.meth), r.meth)[1].x>>
            /\ r.result # "ok" =>
                    /\ r.result = "panic"
                    /\ r.slot = Nil
                    /\ r.meth = "draw" \/ r.type = "ShapeAbstract"

C10_Witness ==
    /\ mode = "test" /\ prog = "emb"
    /\ \E r \in Recs :
        /\ r.type = "ShapeBase" /\ r.slot = Nil
        /\ r.meth = "drawBoundary"
        /\ r.result = "ok"
        /\ r.out = <<"draw nothing">>

\* the depths of T's chain (1 is T itself) at which m is declared
Candidates(p, T, m) ==
    {i \in 1..Len(Chain(p, T)) : m \in Declares(p, Chain(p, T)[i])}

\* the declarations a selector T.m resolves to: those at the shallowest depth
Resolutions(p, T, m) ==
    {i \in Candidates(p, T, m) : \A j \in Candidates(p, T, m) : i <= j}

\* C11: in both Go programs each of base, Circle, RedRectangle and
\* BlueCircleWithText resolves each of drawBoundary, fillColor and draw to
\* exactly one declaration, its own or one of its chain's; and an invocation
\* of any of them on a constructed instance, through the interface or on the
\* concrete type, enters that declaration.
C11_Resolved ==
    prog \in {"emb", "self"} =>
        /\ \A V \in {DemoTypes[i] : i \in 1..Len(DemoTypes)} : \A m \in Operations :
            Cardinality(Resolutions(prog, V, m)) = 1
        /\ (mode = "test" /\ ByCtor) =>
            \A r \in Recs :
                r.target = insts[1].ref =>
                    /\ r.trace # <<>>
                    /\ r.trace[1] = Ev("call", OutermostDefining(prog, r.type, r.meth), r.meth)

C11_Witness ==
    /\ mode = "test" /\ prog = "self" /\ ByCtor
    /\ \E r \in Recs :
        /\ r.target = insts[1].ref
        /\ r.type = "BlueCircleWithText"
        /\ r.meth = "drawBoundary" /\ r.via = "concrete"
        /\ r.trace[1] = Ev("call", "Circle", "drawBoundary")
        /\ r.result = "ok"

\* C12: in both Go programs nothing faults: the driver never panics, and on
\* an instance built by one of the program's constructors every invocation
\* of drawBoundary, fillColor or draw, through the interface or on the
\* concrete type (the self-referential draw being handed a Shape value),
\* runs to its end.
C12_NoFault ==
    prog \in {"emb", "self"} =>
        /\ mode = "demo" => status = "run"
        /\ (mode = "test" /\ ByCtor) =>
            \A r \in Recs :
                (prog = "self" /\ r.meth = "draw" => r.arg # Nil) => r.result = "ok"

C12_Witness ==
    /\ mode = "test" /\ prog = "self" /\ ByCtor
    /\ \E r \in Recs :
        /\ r.target = insts[1].ref
        /\ r.type = "BlueCircleWithText"
        /\ r.before[r.before[r.target].inner].inner = Nil
        /\ r.meth = "draw" /\ r.arg = r.target
        /\ r.result = "ok"
        /\ Len(r.out) = 4

\* c is reached from c0 by at most n steps of the program
RECURSIVE OnOrbit(_, _, _, _)
OnOrbit(p, c0, c, n) ==
    \/ c0 = c
    \/ /\ n > 0 /\ c0.stack # <<>> /\ c0.status = "run"
       /\ OnOrbit(p, Step(p, c0), c, n - 1)

\* C13: determinism of the driver: every state a run of the driver reaches
\* is an iterate of the one step function from the program's one start
\* state, so the tokens emitted so far are always a prefix of the one output
\* the program determines and are that output when the run ends; two runs
\* cannot differ.
C13_Deterministic ==
    mode = "demo" =>
        /\ OnOrbit(prog, [FreshCfg(<<>>) EXCEPT !.stack = <<MainFrame>>], Cfg, MaxSteps)
        /\ IsPrefix(out, DemoOf(prog).out)
        /\ Done => out = DemoOf(prog).out

C13_Witness ==
    /\ Done /\ prog = "emb"
    /\ Len(out) = 17
    /\ out = DemoOf("emb").out

\* the capability value the base composite operation of a recorded draw
\* calls through: the stored self-reference, or the argument
Capability(r) == IF prog = "emb" THEN r.slot ELSE r.arg

\* the one statement a primitive of type T consists of: its token
TokenOf(p, T, m) == Body(p, OutermostDefining(p, T, m), m)[1].x

\* the events of a primitive m invoked on a value of dynamic type T
PrimitiveEvents(p, T, m) ==
    <<Ev("call", OutermostDefining(p, T, m), m), Ev("print", TokenOf(p, T, m), ""),
      Ev("ret", OutermostDefining(p, T, m), m)>>

\* C14: (Go programs) a completed composite operation runs the base
\* composite body once, and that body is exactly: the boundary primitive of
\* the capability value's dynamic type (the stored self-reference, or the
\* argument; not the receiver's type), then the token - once, then the fill
\* primitive of the same capability value, and then it returns.
C14_ThreeSteps ==
    (mode = "test" /\ prog \in {"emb", "self"}) =>
        \A r \in Recs :
            (r.meth = "draw" /\ r.result = "ok") =>
                LET capT == r.before[Capability(r)].type
                    enter == {i \in 1..Len(r.trace) : r.trace[i] = Ev("call", BaseDraw, "draw")}
                IN  /\ Capability(r) # Nil
                    /\ Cardinality(enter) = 1
                    /\ \A i \in enter :
                        /\ i + 8 <= Len(r.trace)
                        /\ SubSeq(r.trace, i + 1, i + 8) =
                              PrimitiveEvents(prog, capT, "drawBoundary")
                              \o <<Ev("print", "-", "")>>
                              \o PrimitiveEvents(prog, capT, "fillColor")
                              \o <<Ev("ret", BaseDraw, "draw")>>
                    /\ Count(r.out, "-") = 1
                    /\ SubSeq(r.out, 1, 3) =
                          <<TokenOf(prog, capT, "drawBoundary"), "-", TokenOf(prog, capT, "fillColor")>>

C14_Witness ==
    /\ mode = "test" /\ prog = "self" /\ ByCtor
    /\ \E r \in Recs :
        /\ r.meth = "draw" /\ r.result = "ok"
        /\ r.type = "ShapeBase"
        /\ r.arg = insts[1].ref /\ r.arg # r.target
        /\ r.before[r.arg].type = "RedRectangle"
        /\ r.out = <<"Rectangle", "-", "Red">>

\* C15: (embedded-interface program) the instance a constructor has returned
\* - to a test session, or into the driver's collection - is of the
\* constructor's type, and the self-reference slot reached from it is not
\* nil and holds the address of that instance, not of an object a nested
\* constructor call created.
C15_SlotIsSelf ==
    prog = "emb" =>
        /\ (mode = "test" /\ ByCtor) =>
            /\ heap[insts[1].ref].type = insts[1].stype
            /\ ReadShape(heap, insts[1].ref) # Nil
            /\ ReadShape(heap, insts[1].ref) = insts[1].ref
        /\ mode = "demo" =>
            \A i \in 1..Len(shapes) :
                /\ heap[shapes[i]].type = DemoTypes[i]
                /\ ReadShape(heap, shapes[i]) # Nil
                /\ ReadShape(heap, shapes[i]) = shapes[i]

C15_Witness ==
    /\ mode = "test" /\ prog = "emb" /\ ByCtor
    /\ insts[1].ctor = "NewBlueCircleWithText"
    /\ Len(heap) = 4
    /\ heap[insts[1].ref].type = "BlueCircleWithText"
    /\ heap[SlotHolder(heap, insts[1].ref)].slot = insts[1].ref
    /\ heap[insts[1].ref].inner # insts[1].ref

\* the instance under test is the literal &Circle{NewShapeBase()}: NewCircle
\* without its assignment c.Shape = c
CircleNotRepointed ==
    /\ insts # <<>> /\ insts[1].by = "literal"
    /\ insts[1].stype = "Circle" /\ insts[1].ctor = "ShapeBase"

\* C16: (embedded-interface program) the composite operation on the Circle
\* NewCircle returns, its slot re-pointed to the Circle, makes its boundary
\* call to Circle.drawBoundary and prints Circle first; on the same Circle
\* built without the assignment the slot still holds the inner ShapeBase,
\* the boundary call goes to ShapeBase.drawBoundary and the output is
\* draw nothing,-,fill nothing.
C16_RepointSelects ==
    (mode = "test" /\ prog = "emb") =>
        \A r \in Recs :
            (r.meth = "draw" /\ r.target = insts[1].ref /\ r.type = "Circle") =>
                /\ ByCtor =>
                    /\ r.slot = r.target
                    /\ r.result = "ok"
                    /\ r.out = <<"Circle", "-", "fill nothing">>
                    /\ \E k \in 1..Len(r.trace) : r.trace[k] = Ev("call", "Circle", "drawBoundary")
                /\ CircleNotRepointed =>
                    /\ r.slot = r.before[r.target].inner
                    /\ r.before[r.slot].type = "ShapeBase"
                    /\ r.result = "ok"
                    /\ r.out = <<"draw nothing", "-", "fill nothing">>
                    /\ \E k \in 1..Len(r.trace) : r.trace[k] = Ev("call", "ShapeBase", "drawBoundary")
                    /\ \A k \in 1..Len(r.trace) : r.trace[k] # Ev("call", "Circle", "drawBoundary")

C16_Witness ==
    /\ mode = "test" /\ prog = "emb" /\ CircleNotRepointed
    /\ \E r \in Recs :
        /\ r.meth = "draw" /\ r.target = insts[1].ref /\ r.type = "Circle"
        /\ r.slot # r.target /\ r.slot # Nil
        /\ r.out = <<"draw nothing", "-", "fill nothing">>

\* the events of BlueCircleWithText's composite operation, b the type that
\* defines the base composite operation
ExpectedBctTrace(b) ==
    <<Ev("call", "BlueCircleWithText", "draw"),
      Ev("call", b, "draw"),
      Ev("call", "Circle", "drawBoundary"), Ev("print", "Circle", ""),
      Ev("ret", "Circle", "drawBoundary"),
      Ev("print", "-", ""),
      Ev("call", "BlueCircleWithText", "fillColor"), Ev("print", "Blue", ""),
      Ev("ret", "BlueCircleWithText", "fillColor"),
      Ev("ret", b, "draw"),
      Ev("print", "-TextAnnotation", ""),
      Ev("ret", "BlueCircleWithText", "draw")>>

\* a trace with the program's base type named "base"
Unnamed(p, tr) ==
    [i \in 1..Len(tr) |->
        IF tr[i].t = (IF p = "emb" THEN "ShapeAbstract" ELSE "Shape")
        THEN [tr[i] EXCEPT !.t = "base"] ELSE tr[i]]

\* C17: (Java and embedded-interface programs) the composite operation of a
\* constructed BlueCircleWithText is the sequence: BlueCircleWithText.draw
\* entered, base draw entered, Circle.drawBoundary called and returned, -,
\* BlueCircleWithText.fillColor called and returned, base draw returned,
\* -TextAnnotation printed, BlueCircleWithText.draw returned; and up to the
\* name of the base type it is the same sequence in both programs.
C17_CallTrace ==
    (mode = "test" /\ prog \in {"emb", "java"}) =>
        \A r \in RootDraws :
            r.type = "BlueCircleWithText" =>
                /\ r.result = "ok"
                /\ r.trace = ExpectedBctTrace(BaseDraw)
                /\ Unnamed(prog, r.trace) =
                      Unnamed("java", DrawOf("java", "BlueCircleWithText").trace)
                /\ Unnamed(prog, r.trace) =
                      Unnamed("emb", DrawOf("emb", "BlueCircleWithText").trace)

C17_Witness ==
    /\ mode = "test" /\ prog = "java"
    /\ \E r \in RootDraws :
        /\ r.type = "BlueCircleWithText"
        /\ Len(r.trace) = 12
        /\ r.trace[2] = Ev("call", "Shape", "draw")
        /\ r.trace[10] = Ev("ret", "Shape", "draw")
        /\ r.trace[11] = Ev("print", "-TextAnnotation", "")

\* C18: no operation writes an object: every recorded invocation of
\* drawBoundary, fillColor or draw, on any object and however it ends, leaves
\* the heap - every self-reference slot and every embedded pointer - as it
\* found it, so the heap of a test session stays the one its construction
\* built and the heap of a driver stays the one its four constructions
\* built, while the output grows.
C18_NoMutation ==
    /\ mode = "test" =>
        /\ \A r \in Recs : r.after = r.before
        /\ insts # <<>> => heap = BuiltHeap
    /\ (mode = "demo" /\ Len(shapes) = Len(DemoTypes)) => heap = DemoOf(prog).heap

C18_Witness ==
    /\ mode = "test" /\ prog = "emb" /\ ByCtor
    /\ Len(log) = 2
    /\ log[1].meth = "draw" /\ log[1].type = "BlueCircleWithText" /\ Len(log[1].out) = 4
    /\ log[2].meth = "fillColor" /\ log[2].type = "Circle" /\ log[2].via = "concrete"
    /\ log[2].after = log[1].before
    /\ Len(out) = 5
    /\ \A a \in 1..Len(heap) : ReadShape(heap, a) = insts[1].ref

\* C19: (embedded-interface program) a constructed chain has one
\* ShapeAbstract, so one slot, and every link reads the outermost instance
\* from it; the composite operation invoked on an embedded link therefore
\* runs the outermost instance's primitives: on the Circle or the ShapeBase
\* inside NewBlueCircleWithText's instance it prints Circle,-,Blue and no
\* -TextAnnotation.
C19_SharedSlot ==
    (mode = "test" /\ prog = "emb" /\ ByCtor) =>
        /\ Cardinality({a \in 1..Len(heap) : heap[a].type = "ShapeAbstract"}) = 1
        /\ \A a \in 1..Len(heap) : ReadShape(heap, a) = insts[1].ref
        /\ \A r \in Recs :
            (r.meth = "draw" /\ r.target # insts[1].ref) =>
                /\ r.result = "ok"
                /\ r.out = SubSeq(ExpectedTokens(insts[1].stype), 1, 3)
                /\ insts[1].stype = "BlueCircleWithText" => r.out = <<"Circle", "-", "Blue">>

C19_Witness ==
    /\ mode = "test" /\ prog = "emb" /\ ByCtor
    /\ insts[1].ctor = "NewBlueCircleWithText"
    /\ Len(log) = 2
    /\ log[1].meth = "draw" /\ log[1].type = "Circle" /\ log[1].via = "concrete"
    /\ log[1].out = <<"Circle", "-", "Blue">>
    /\ log[2].meth = "draw" /\ log[2].type = "ShapeBase" /\ log[2].via = "iface"
    /\ log[2].out = <<"Circle", "-", "Blue">>

\* what x.draw(x) emits for the receiver and dispatch of the recorded call
SelfDrawOut(r) ==
    Invocation(prog, FreshCfg(r.before), Owner(r.before, r.target),
               r.target, "draw", r.via, r.target).out

\* the tokens x.draw(y) is to emit
ArgumentTokens(r) ==
    LET yT == r.before[r.arg].type
    IN  <<TokenOf(prog, yT, "drawBoundary"), "-", TokenOf(prog, yT, "fillColor")>>
        \o (IF r.type = "BlueCircleWithText" THEN <<"-TextAnnotation">> ELSE <<>>)

\* C20 as stated: x.draw(y) with y not nil emits y's boundary token, -, y's
\* fill token (and -TextAnnotation for a BlueCircleWithText x), and whenever
\* y is another value than x it emits something else than x.draw(x).
C20_DistinctArgumentDiffers ==
    \A r \in Recs :
        (r.meth = "draw" /\ r.arg # Nil) =>
            /\ r.result = "ok"
            /\ r.out = ArgumentTokens(r)
            /\ r.arg # r.target => r.out # SelfDrawOut(r)

\* C20 amended: (self-referential program) x.draw(y) with y not nil
\* completes and emits y's boundary token, -, y's fill token, followed by
\* -TextAnnotation when x is a BlueCircleWithText, whatever x is otherwise;
\* it emits something else than x.draw(x) exactly when y is of another
\* variant than x.
C20_ArgumentDecides ==
    \A r \in Recs :
        (r.meth = "draw" /\ r.arg # Nil) =>
            /\ r.result = "ok"
            /\ r.out = ArgumentTokens(r)
            /\ (r.out # SelfDrawOut(r)) = (r.before[r.arg].type # r.type)

C20_Witness ==
    /\ Len(insts) = 2
    /\ insts[1].ctor = "NewCircle" /\ insts[2].ctor = "NewCircle"
    /\ \E r \in Recs :
        /\ r.target = insts[1].ref /\ r.arg = insts[2].ref
        /\ r.out = <<"Circle", "-", "fill nothing">>
        /\ r.out = SelfDrawOut(r)

\* C21: (self-referential program) the instance NewBlueCircleWithText
\* returns embeds a Circle whose ShapeBase pointer is nil, unlike the Circle
\* NewCircle returns; ShapeBase's three methods take a pointer receiver and
\* call nothing on it; and the composite operation on the instance, itself
\* the argument, completes and emits Circle,-,Blue,-TextAnnotation, as does
\* every other operation invoked on the instance or on its embedded Circle
\* with a Shape value as argument.
C21_NilBaseHarmless ==
    (mode = "test" /\ prog = "self" /\ ByCtor) =>
        /\ \A m \in Operations :
            /\ ~ByValue("self", "ShapeBase", m)
            /\ \A k \in 1..Len(Body("self", "ShapeBase", m)) :
                Body("self", "ShapeBase", m)[k].x # "recv"
        /\ insts[1].ctor = "NewCircle" => heap[insts[1].ref].inner # Nil
        /\ insts[1].ctor = "NewBlueCircleWithText" =>
            /\ heap[insts[1].ref].inner # Nil
            /\ heap[heap[insts[1].ref].inner].type = "Circle"
            /\ heap[heap[insts[1].ref].inner].inner = Nil
            /\ \A r \in RootDraws :
                /\ r.result = "ok"
                /\ r.out = <<"Circle", "-", "Blue", "-TextAnnotation">>
                /\ \E k \in 1..Len(r.trace) : r.trace[k] = Ev("call", "ShapeBase", "draw")
            /\ \A r \in Recs :
                (r.meth = "draw" => r.arg # Nil) => r.result = "ok"

C21_Witness ==
    /\ mode = "test" /\ prog = "self" /\ ByCtor
    /\ insts[1].ctor = "NewBlueCircleWithText"
    /\ heap[heap[insts[1].ref].inner].inner = Nil
    /\ Len(log) = 2
    /\ log[1].target = insts[1].ref /\ log[1].meth = "draw" /\ log[1].arg = insts[1].ref
    /\ log[1].via = "iface"
    /\ log[1].out = <<"Circle", "-", "Blue", "-TextAnnotation">>
    /\ log[2].type = "Circle" /\ log[2].meth = "fillColor" /\ log[2].via = "concrete"
    /\ log[2].out = <<"fill nothing">>

\* the address before the first object of the k-th instance's chain
Offset(k) == IF k = 1 THEN 0 ELSE insts[k - 1].ref

\* the heap the k-th instance's constructor builds when called alone
Alone(k) == Construct(prog, <<>>, insts[k].ctor).heap

\* an object with its addresses moved by off
Shifted(o, off) ==
    [o EXCEPT !.inner = IF @ = Nil THEN Nil ELSE @ + off,
              !.slot = IF @ = Nil THEN Nil ELSE @ + off]

\* the instance whose chain holds the address x
OwnerIndex(x) == CHOOSE k \in 1..Len(insts) : Offset(k) < x /\ x <= insts[k].ref

\* what the recorded call emits on the same object of an instance built alone
AloneOut(r) ==
    LET k == OwnerIndex(r.target)
    IN  Invocation(prog, FreshCfg(Alone(k)), [insts[k] EXCEPT !.ref = @ - Offset(k)],
                   r.target - Offset(k), r.meth, r.via, r.arg).out

\* C22: (embedded-interface program) instances are independent: however
\* many instances were built and in whatever order, each instance's chain is
\* the chain its constructor builds alone - its own ShapeAbstract, its slot
\* holding the instance itself, untouched by the constructions that followed
\* - and a composite operation emits what it emits on an instance built
\* alone.
C22_Independent ==
    /\ \A k \in 1..Len(insts) :
        /\ ReadShape(heap, insts[k].ref) = insts[k].ref
        /\ insts[k].ref = Offset(k) + Len(Alone(k))
        /\ \A a \in 1..Len(Alone(k)) : heap[Offset(k) + a] = Shifted(Alone(k)[a], Offset(k))
        /\ \A j \in 1..Len(insts) :
            j # k => SlotHolder(heap, insts[j].ref) # SlotHolder(heap, insts[k].ref)
    /\ \A r \in Recs :
        /\ r.result = "ok"
        /\ r.out = AloneOut(r)
        /\ r.out = SubSeq(ExpectedTokens(insts[OwnerIndex(r.target)].stype), 1,
                           IF r.type = "BlueCircleWithText" THEN 4 ELSE 3)

C22_Witness ==
    /\ Len(insts) = 2
    /\ insts[1].ctor = "NewCircle" /\ insts[2].ctor = "NewRedRectangle"
    /\ ReadShape(heap, insts[1].ref) = insts[1].ref
    /\ \E r \in Recs :
        /\ r.target = insts[1].ref
        /\ Len(r.before) = Len(heap)
        /\ r.out = <<"Circle", "-", "fill nothing">>

\* the events of the driver's trace that enter the method m of type T
Entries(T, m) == {i \in 1..Len(trace) : trace[i] = Ev("call", T, m)}

\* no composite operation is entered while the base composite operation
\* runs, and no method is on the stack twice
NoReentry ==
    \A i \in 1..Len(stack), j \in 1..Len(stack) :
        i < j =>
            /\ (stack[i].type = BaseDraw /\ stack[i].meth = "draw") => stack[j].meth # "draw"
            /\ ~(stack[i].type = stack[j].type /\ stack[i].meth = stack[j].meth)

\* the driver has drawn its four instances
FourInvocations ==
    /\ Done
    /\ idx = Len(shapes) + 1 /\ Len(shapes) = 4
    /\ Cardinality(Entries(BaseDraw, "draw")) = 4
    /\ Cardinality(Entries("BlueCircleWithText", "draw")) = 1
    /\ Cardinality({i \in 1..Len(trace) : trace[i].e = "call"}) = 13
    /\ Count(out, Newline) = 4

\* C23: termination: in a run of the driver the call stack never holds more
\* than main, BlueCircleWithText.draw, the base composite operation and one
\* primitive; no composite operation is entered from within the base
\* composite operation and no method is re-entered; nothing panics; and the
\* driver reaches its end, having drawn each of its four wired instances
\* once, in thirteen calls.
C23_Terminates ==
    /\ [](Len(stack) <= 4 /\ NoReentry /\ status = "run")
    /\ <>FourInvocations

C23_Witness ==
    /\ FourInvocations
    /\ prog = "emb"
    /\ out[Len(out) - 1] = "-TextAnnotation"
    /\ \E i \in 1..Len(trace) : trace[i] = Ev("ret", "BlueCircleWithText", "draw")

====
